---- MODULE Spec2Model ----
(***************************************************************************)
(* A model of the easymud entity/component/system runtime (easymud/mud.py):*)
(* EventDispatcher, World, Room, Entity and the component systems.  Every  *)
(* method is a transformer of a machine record `m` holding the mutable     *)
(* objects; a raised Python exception is the field m.exc, which every      *)
(* later statement propagates until EventDispatcher.dispatch catches it.   *)
(***************************************************************************)
EXTENDS Integers, Sequences, FiniteSets, TLC

VARIABLES
    definition,       \* the world definition World.__init__ was given
    world,            \* the attributes World.__init__ has set on the World
    rooms,            \* World.rooms: room id -> Room (its id, title, exit_dict)
    entities,         \* World.entities (the ids)
    entity_room_map,  \* World.entity_room_map: entity id -> room (or None)
    components,       \* Entity.components, per entity: a list of kind names
    session,          \* Entity.session, per entity (Unset until assigned)
    systems,          \* ComponentSystem.entities, per kind: id -> record
    listeners,        \* EventDispatcher.listeners, per owner: event -> list
    current_tick,     \* World.current_tick
    last              \* the last call: what was called, result, trace

vars == <<definition, world, rooms, entities, entity_room_map, components,
          session, systems, listeners, current_tick, last>>

----------------------------------------------------------------------------
(* Bounds of the model *)

MaxEntities == 2
MaxCarriers == 1
MaxTick == 2

----------------------------------------------------------------------------
(* Values *)

None == "None"
Unset == "Unset"
NoExc == "NoExc"
NoKw == [x \in {} |-> "None"]

IdPool == <<"e1", "e2", "e3", "e4">>
SessionPool == <<"s1", "s2", "s3", "s4">>

SessionOf(e) == SessionPool[CHOOSE i \in 1..Len(IdPool) : IdPool[i] = e]

Directions == {"north", "south"}

Range(s) == {s[i] : i \in DOMAIN s}

Put(f, k, v) == (k :> v) @@ f

Del(f, k) == [x \in DOMAIN f \ {k} |-> f[x]]

\* dict.get(k, default)
Get(f, k, default) == IF k \in DOMAIN f THEN f[k] ELSE default

\* list.remove(x): drops the first occurrence (the caller checks membership)
ListRemove(s, x) ==
    LET i == CHOOSE j \in DOMAIN s : s[j] = x /\ \A k \in 1..(j - 1) : s[k] # x
    IN  [k \in 1..(Len(s) - 1) |-> IF k < i THEN s[k] ELSE s[k + 1]]

----------------------------------------------------------------------------
(* World definitions: room id -> exits (direction -> room id) *)

NoExits == [d \in {} |-> None]

\* easymud/world.py
WorldPy ==
    ("root" :> [exits |-> ("north" :> "room_0")]) @@
    ("room_0" :> [exits |-> NoExits])

\* the fixture of test/mud_tests.py: one room whose exit leads to itself
TestFixture == ("test1" :> [exits |-> ("north" :> "test1")])

\* a root with a way out and back, and an exit to itself
TwoWay ==
    ("root" :> [exits |-> ("north" :> "lab") @@ ("south" :> "root")]) @@
    ("lab" :> [exits |-> ("south" :> "root")])

\* a room that gives no 'exits' at all next to a room that leads to it
Untitled ==
    ("root" :> [exits |-> ("south" :> "cell")]) @@
    ("cell" :> [title |-> "A Cell"])

\* an exit to a room that is not declared
Dangling ==
    ("root" :> [exits |-> ("north" :> "lab") @@ ("south" :> "nowhere")]) @@
    ("lab" :> [exits |-> ("south" :> "root")])

\* the same in the room that is visited last, behind a valid one
DanglingBack ==
    ("lab" :> [exits |-> ("south" :> "root")]) @@
    ("root" :> [exits |-> ("north" :> "root") @@ ("south" :> "gone")])

\* room.get('exits', {})
exits_of(room) == Get(room, "exits", NoExits)

\* a validate that accepts every definition
validate_nothing(def) == TRUE

\* World.validate: every exit target is a declared room id
validate(def) ==
    \A r \in DOMAIN def :
        \A d \in DOMAIN exits_of(def[r]) : exits_of(def[r])[d] \in DOMAIN def

Definitions == {d \in {WorldPy, TestFixture, TwoWay} : validate(d)}

\* every definition World.__init__ is tried with, valid or not
AllDefinitions == Definitions \cup {Untitled, Dangling, DanglingBack}

\* Room.__init__, as World.build calls it
Room(id, room) ==
    [id |-> id, title |-> Get(room, "title", "An Unnamed Room"),
     exit_dict |-> exits_of(room)]

\* a build that drops the exits
build_bare(def) == [id \in DOMAIN def |-> Room(id, [title |-> "An Unnamed Room"])]

\* World.build: dict of (id, Room(...)) for the items of the definition
build(def) == [id \in DOMAIN def |-> Room(id, def[id])]

\* the ids World.rooms holds
Rooms == DOMAIN rooms

\* World.get_room: rooms.get(id); a Room is named by its id attribute
get_room(id) == IF id \in DOMAIN rooms THEN rooms[id].id ELSE None

\* World.root
root == get_room("root")

\* a get_exit whose lookup defaults to the room itself
get_exit_self(room, direction) == get_room(Get(rooms[room].exit_dict, direction, room))

\* Room.get_exit: world.get_room(exit_dict.get(direction))
get_exit(room, direction) == get_room(Get(rooms[room].exit_dict, direction, None))

----------------------------------------------------------------------------
(* The machine record and exceptions *)

Machine ==
    [entity_room_map |-> entity_room_map, components |-> components,
     session |-> session, systems |-> systems, listeners |-> listeners,
     log |-> <<>>, exc |-> NoExc, ret |-> [tag |-> "None", val |-> None]]

Raise(m, e) == [m EXCEPT !.exc = e]

Log(m, entry) == [m EXCEPT !.log = Append(@, entry)]

Return(m, v) == [m EXCEPT !.ret = v]

----------------------------------------------------------------------------
(* EventDispatcher *)

Events == {"arrived", "moved", "left"}

Handler(fn, self) == [fn |-> fn, self |-> self]

player_moved_handler == Handler("player_moved", "player")

display_entity_arrived(s) == Handler("display_entity_arrived", s)

display_entity_left(s) == Handler("display_entity_left", s)

\* self.listeners.get(event, [])
event_listeners(m, owner, event) == Get(m.listeners[owner], event, <<>>)

\* an add_handler that appends whether or not the handler is in the list
add_handler_again(m, owner, event, handler) ==
    IF m.exc # NoExc THEN m
    ELSE [m EXCEPT !.listeners[owner] =
              Put(@, event, Append(event_listeners(m, owner, event), handler))]

\* EventDispatcher.add_handler
add_handler(m, owner, event, handler) ==
    IF m.exc # NoExc THEN m
    ELSE IF handler \notin Range(event_listeners(m, owner, event))
    THEN [m EXCEPT !.listeners[owner] =
              Put(@, event, Append(event_listeners(m, owner, event), handler))]
    ELSE m

\* list.remove raises ValueError when the handler is not in a non-empty list
remove_handler(m, owner, event, handler) ==
    IF m.exc # NoExc THEN m
    ELSE IF event_listeners(m, owner, event) # <<>>
    THEN IF handler \in Range(event_listeners(m, owner, event))
         THEN [m EXCEPT !.listeners[owner] =
                   Put(@, event, ListRemove(event_listeners(m, owner, event), handler))]
         ELSE Raise(m, "ValueError")
    ELSE m

----------------------------------------------------------------------------
(* The session: display_room, display_entity_arrived and display_entity_left *)
(* are callbacks of the injected session object; the core only calls them.   *)

\* a session whose callbacks raise, as one whose connection is gone
Broken == "s0"

session_call(m, fn, s, event, on, about) ==
    LET m1 == Log(m, [t |-> "call", fn |-> fn, self |-> s, event |-> event,
                      on |-> on, about |-> about])
    IN  IF s = Broken THEN Raise(m1, "IOError") ELSE m1

\* entity.session.<callback>: AttributeError when entity.session is None
session_attr(m, entity) ==
    IF m.exc # NoExc THEN m
    ELSE IF m.session[entity] \in {None, Unset} THEN Raise(m, "AttributeError")
    ELSE m

\* a player_moved that keeps the subscriptions to the room it leaves
player_moved_stay(m, entity, kwargs) ==
    LET to_room == kwargs.to_room
        s == m.session[entity]
        m1 == session_attr(m, entity)
        m2 == IF m1.exc # NoExc THEN m1
              ELSE session_call(m1, "display_room", s, "moved", entity, to_room)
        m3 == add_handler(m2, to_room, "arrived", display_entity_arrived(s))
    IN  add_handler(m3, to_room, "left", display_entity_left(s))

\* PlayerComponentSystem.player_moved
player_moved(m, entity, kwargs) ==
    LET from_room == kwargs.from_room
        to_room == kwargs.to_room
        s == m.session[entity]
        m1 == remove_handler(session_attr(m, entity), from_room, "arrived",
                             display_entity_arrived(s))
        m2 == remove_handler(m1, from_room, "left", display_entity_left(s))
        m3 == IF m2.exc # NoExc THEN m2
              ELSE session_call(m2, "display_room", s, "moved", entity, to_room)
        m4 == add_handler(m3, to_room, "arrived", display_entity_arrived(s))
    IN  add_handler(m4, to_room, "left", display_entity_left(s))

\* a handler that takes itself off the event it is called for
once == Handler("once", "-")

\* a handler that takes the arrival callback of session s off that event
unsubscribes(s) == Handler("unsubscribes", s)

\* a handler that puts the arrival callback of session s on that event
subscribes(s) == Handler("subscribes", s)

\* listener(self.context, **kwargs)
invoke(m, handler, context, event, kwargs) ==
    IF handler.fn = "player_moved"
    THEN player_moved(
             Log(m, [t |-> "call", fn |-> handler.fn, self |-> handler.self,
                     event |-> event, on |-> context, about |-> context]),
             context, kwargs)
    ELSE LET m1 == session_call(m, handler.fn, handler.self, event, context,
                                kwargs.entity)
         IN  CASE handler.fn = "once" ->
                      remove_handler(m1, context, event, handler)
               [] handler.fn = "unsubscribes" ->
                      remove_handler(m1, context, event,
                                     display_entity_arrived(handler.self))
               [] handler.fn = "subscribes" ->
                      add_handler(m1, context, event,
                                  display_entity_arrived(handler.self))
               [] OTHER -> m1

\* the listener is taken from the list and called
listener_called(m, handler, context, event, kwargs) ==
    invoke(Log(m, [t |-> "listener", handler |-> handler, event |-> event,
                   on |-> context]),
           handler, context, event, kwargs)

\* a call of the listener with no try around it
call_listener_uncaught(m, handler, context, event, kwargs) ==
    listener_called(m, handler, context, event, kwargs)

\* try: listener(...) except Exception as e: logging.exception(e)
call_listener(m, handler, context, event, kwargs) ==
    LET r == listener_called(m, handler, context, event, kwargs)
    IN  IF r.exc # NoExc
        THEN [Log(r, [t |-> "logged", exc |-> r.exc, fn |-> handler.fn])
                 EXCEPT !.exc = NoExc]
        ELSE r

\* the for loop of dispatch: Python iterates the live list by index, and
\* an exception that leaves the loop body ends the loop
RECURSIVE dispatch_from(_, _, _, _, _)
dispatch_from(m, owner, event, i, kwargs) ==
    IF m.exc # NoExc \/ i > Len(event_listeners(m, owner, event)) THEN m
    ELSE dispatch_from(
             call_listener(m, event_listeners(m, owner, event)[i], owner, event, kwargs),
             owner, event, i + 1, kwargs)

\* EventDispatcher.dispatch; with no bucket the loop runs over the default ()
dispatch(m, owner, event, kwargs) ==
    IF m.exc # NoExc THEN m
    ELSE LET m1 == Log(m, [t |-> "dispatch", event |-> event, on |-> owner])
         IN  IF event \in DOMAIN m.listeners[owner]
             THEN dispatch_from(m1, owner, event, 1, kwargs)
             ELSE m1

EventData(entity, from_room, to_room, direction) ==
    [entity |-> entity, from_room |-> from_room, to_room |-> to_room,
     direction |-> direction]

----------------------------------------------------------------------------
(* Component systems *)

Kinds == {"mobile", "health", "player", "armor"}

\* ComponentSystem.requires, per class
requires(kind) == IF kind = "player" THEN <<"health">> ELSE <<>>

\* the field names of ComponentSystem.attributes, per class
Fields(kind) ==
    CASE kind = "player" -> {"session"}
      [] kind = "health" -> {"hp", "hp_max", "hp_regen", "is_dead"}
      [] kind = "armor"  -> {"ac"}
      [] OTHER           -> {}

\* the defaults ComponentSystem.attributes gives to recordtype; the armor
\* class lists 'ac' bare, and its `defaults` dict is read by nothing
Defaults(kind) ==
    CASE kind = "player" -> [session |-> None]
      [] kind = "health" -> [hp |-> 100, hp_max |-> 100, hp_regen |-> 10, is_dead |-> FALSE]
      [] OTHER           -> NoKw

\* self.record(**kwargs) raises TypeError for an unknown keyword and for a
\* field that has no default and is not given
record_ok(kind, kwargs) ==
    /\ DOMAIN kwargs \subseteq Fields(kind)
    /\ (Fields(kind) \ DOMAIN Defaults(kind)) \subseteq DOMAIN kwargs

record(kind, kwargs) ==
    [f \in Fields(kind) |-> IF f \in DOMAIN kwargs THEN kwargs[f] ELSE Defaults(kind)[f]]

\* PlayerComponentSystem.on_register
player_on_register(m, entity) ==
    LET m1 == add_handler(m, entity, "moved", player_moved_handler)
        player == m1.systems["player"][entity]
        m2 == [m1 EXCEPT !.session[entity] = player.session]
        room == m2.entity_room_map[entity]
        s == m2.session[entity]
        m3 == IF room = None THEN Raise(m2, "AttributeError")
              ELSE add_handler(session_attr(m2, entity), room, "arrived",
                               display_entity_arrived(s))
    IN  add_handler(m3, room, "left", display_entity_left(s))

\* <System>.on_register: only the player system does anything
on_register(m, kind, entity) ==
    IF m.exc # NoExc THEN m
    ELSE LET m1 == Log(m, [t |-> "on_register", kind |-> kind, entity |-> entity])
         IN  IF kind = "player" THEN player_on_register(m1, entity) ELSE m1

\* self.entities[entity.id] = self.record(**kwargs)
store_record(m, kind, entity, kwargs) ==
    IF m.exc # NoExc THEN m
    ELSE IF record_ok(kind, kwargs)
    THEN Log([m EXCEPT !.systems[kind] = Put(@, entity, record(kind, kwargs))],
             [t |-> "record", kind |-> kind, entity |-> entity])
    ELSE Raise(m, "TypeError")

RECURSIVE add_component(_, _, _, _)
RECURSIVE register(_, _, _, _)
RECURSIVE add_required(_, _, _)

\* Entity.add_component
add_component(m, entity, component, kwargs) ==
    IF m.exc # NoExc THEN m
    ELSE IF component \notin Range(m.components[entity])
    THEN register([m EXCEPT !.components[entity] = Append(@, component)],
                  component, entity, kwargs)
    ELSE m

\* for required_component in requires: entity.add_component(required_component)
add_required(m, entity, reqs) ==
    IF reqs = <<>> THEN m
    ELSE add_required(add_component(m, entity, Head(reqs), NoKw), entity, Tail(reqs))

\* a register without the guard on the stored record
register_unguarded(m, kind, entity, kwargs) ==
    IF m.exc # NoExc THEN m
    ELSE on_register(
             store_record(add_required(m, entity, requires(kind)), kind, entity, kwargs),
             kind, entity)

\* a register that stores its record before it attaches what it requires
register_record_first(m, kind, entity, kwargs) ==
    IF m.exc # NoExc THEN m
    ELSE IF entity \notin DOMAIN m.systems[kind]
    THEN on_register(
             add_required(store_record(m, kind, entity, kwargs), entity, requires(kind)),
             kind, entity)
    ELSE m

\* ComponentSystem.register
register(m, kind, entity, kwargs) ==
    IF m.exc # NoExc THEN m
    ELSE IF entity \notin DOMAIN m.systems[kind]
    THEN on_register(
             store_record(add_required(m, entity, requires(kind)), kind, entity, kwargs),
             kind, entity)
    ELSE m

\* an unregister that also drops the records of the kinds this one requires
unregister_required(m, kind, entity) ==
    IF m.exc # NoExc THEN m
    ELSE IF entity \in DOMAIN m.systems[kind]
    THEN Log([m EXCEPT !.systems =
                  [k \in DOMAIN @ |->
                      IF k = kind \/ k \in Range(requires(kind))
                      THEN Del(@[k], entity) ELSE @[k]]],
             [t |-> "on_unregister", kind |-> kind, entity |-> entity])
    ELSE m

\* ComponentSystem.unregister (on_unregister does nothing in every system)
unregister(m, kind, entity) ==
    IF m.exc # NoExc THEN m
    ELSE IF entity \in DOMAIN m.systems[kind]
    THEN Log([m EXCEPT !.systems[kind] = Del(@, entity)],
             [t |-> "on_unregister", kind |-> kind, entity |-> entity])
    ELSE m

\* Entity.remove_component
remove_component(m, entity, component) ==
    IF component \in Range(m.components[entity])
    THEN unregister([m EXCEPT !.components[entity] = ListRemove(@, component)],
                    component, entity)
    ELSE m

\* Entity.has_component
has_component(m, entity, component) == component \in Range(m.components[entity])

Value(tag, val) == [tag |-> tag, val |-> val]

\* ComponentSystem.get_component: self.entities[entity.id], a KeyError if absent
system_get_component(m, kind, entity) ==
    IF entity \in DOMAIN m.systems[kind]
    THEN Return(m, Value("record", m.systems[kind][entity]))
    ELSE Raise(m, "KeyError")

\* Entity.get_component
get_component(m, entity, component) ==
    IF component \in Range(m.components[entity])
    THEN system_get_component(m, component, entity)
    ELSE Return(m, Value("None", None))

\* a regeneration that leaves hp alone when hp_regen would overshoot
regen_stalled(health) ==
    IF health.hp = health.hp_max \/ health.is_dead THEN health
    ELSE IF (health.hp + health.hp_regen) > health.hp_max THEN health
    ELSE [health EXCEPT !.hp = @ + health.hp_regen]

\* a regeneration that does not clamp
regen_unclamped(health) ==
    IF health.hp = health.hp_max \/ health.is_dead THEN health
    ELSE [health EXCEPT !.hp = @ + health.hp_regen]

\* HealthComponentSystem.on_tick, for one record
regen(health) ==
    IF health.hp = health.hp_max \/ health.is_dead THEN health
    ELSE IF (health.hp + health.hp_regen) > health.hp_max
    THEN [health EXCEPT !.hp = @ + (health.hp_max - health.hp)]
    ELSE [health EXCEPT !.hp = @ + health.hp_regen]

\* <System>.on_tick: only the health system does anything; the trace keeps
\* the records the system held when it was called
on_tick(m, kind) ==
    LET m1 == Log(m, [t |-> "on_tick", kind |-> kind, before |-> m.systems[kind]])
    IN  IF kind = "health"
        THEN [m1 EXCEPT !.systems["health"] =
                  [e \in DOMAIN @ |-> regen(@[e])]]
        ELSE m1

----------------------------------------------------------------------------
(* World and Entity operations *)

\* World.move_entity, the setter of Entity.room
move_entity(m, entity, room) ==
    Log([m EXCEPT !.entity_room_map = Put(@, entity, room)],
        [t |-> "move_entity", entity |-> entity, room |-> room])

\* World.where_entity, the getter of Entity.room
where_entity(m, entity) == Get(m.entity_room_map, entity, None)

CannotGo == "You cannot go that way."

\* a move that reports the departure before the arrival
move_left_first(m, entity, direction) ==
    LET prev_room == where_entity(m, entity)
        next_room == get_exit(prev_room, direction)
    IN  IF prev_room = None THEN Raise(m, "AttributeError")
        ELSE IF next_room # None
        THEN LET m1 == dispatch(m, prev_room, "left",
                                EventData(entity, "-", "-", direction))
                 m2 == move_entity(m1, entity, next_room)
                 m3 == dispatch(m2, next_room, "arrived",
                                EventData(entity, "-", "-", "-"))
                 m4 == dispatch(m3, entity, "moved",
                                EventData("-", prev_room, next_room, "-"))
             IN  Return(m4, Value("tuple", <<TRUE, None>>))
        ELSE Return(m, Value("tuple", <<FALSE, CannotGo>>))

\* Entity.move; None.get_exit is an AttributeError
move(m, entity, direction) ==
    LET prev_room == where_entity(m, entity)
        next_room == get_exit(prev_room, direction)
    IN  IF prev_room = None THEN Raise(m, "AttributeError")
        ELSE IF next_room # None
        THEN LET m1 == move_entity(m, entity, next_room)
                 m2 == dispatch(m1, next_room, "arrived",
                                EventData(entity, "-", "-", "-"))
                 m3 == dispatch(m2, entity, "moved",
                                EventData("-", prev_room, next_room, "-"))
                 m4 == dispatch(m3, prev_room, "left",
                                EventData(entity, "-", "-", direction))
             IN  Return(m4, Value("tuple", <<TRUE, None>>))
        ELSE Return(m, Value("tuple", <<FALSE, CannotGo>>))

\* the systems in the order World.tick visits them
SystemOrder == <<"player", "mobile", "health", "armor">>

\* a loop that stops after the first system
tick_first_system(m, kinds) ==
    IF kinds = <<>> THEN m ELSE on_tick(m, Head(kinds))

\* for component, system in self.systems.items(): system.on_tick()
RECURSIVE tick_systems(_, _)
tick_systems(m, kinds) ==
    IF kinds = <<>> THEN m
    ELSE tick_systems(on_tick(m, Head(kinds)), Tail(kinds))

\* World.tick, after the counter `tick` has been assigned
tick(m, now) ==
    tick_systems(Log(m, [t |-> "current_tick", value |-> now]), SystemOrder)

----------------------------------------------------------------------------
(* The state machine *)

Call(name, entity, arg, kwargs) ==
    [name |-> name, entity |-> entity, arg |-> arg, kwargs |-> kwargs]

Outcome(op, m) == [op |-> op, ret |-> m.ret, exc |-> m.exc, log |-> m.log]

\* the attributes World.__init__ sets, in its order
WorldAttributes ==
    <<"dispatcher", "entities", "entity_room_map", "rooms", "systems", "current_tick">>

\* World.__init__: the dispatcher and the two maps, then validate, build,
\* initialize_systems and the tick counter; WorldValidationError ends it
World(def) ==
    LET w == [world |-> {WorldAttributes[i] : i \in 1..3},
              listeners |-> ("world" :> NoKw), rooms |-> NoKw, systems |-> NoKw,
              current_tick |-> None, exc |-> NoExc]
    IN  IF validate(def)
        THEN [w EXCEPT !.world = Range(WorldAttributes),
                       !.rooms = build(def),
                       !.listeners = @ @@ [r \in DOMAIN build(def) |-> NoKw],
                       !.systems = [k \in Kinds |-> NoKw],
                       !.current_tick = 0]
        ELSE [w EXCEPT !.exc = "WorldValidationError"]

\* the state World(definition) leaves
Constructed ==
    /\ world = World(definition).world
    /\ rooms = World(definition).rooms
    /\ entities = {}
    /\ entity_room_map = NoKw
    /\ components = NoKw
    /\ session = NoKw
    /\ systems = World(definition).systems
    /\ listeners = World(definition).listeners
    /\ current_tick = World(definition).current_tick
    /\ last = [Outcome(Call("World", "-", "-", NoKw), Machine)
                   EXCEPT !.exc = World(definition).exc]

\* the state after World.__init__ on a definition that passes validation
Init == definition \in Definitions /\ Constructed

\* the state after World.__init__ on any definition
InitAny == definition \in AllDefinitions /\ Constructed

\* World.__init__ returned: its last statement has run
Usable == "current_tick" \in world

\* the same, for the world of easymud/world.py
InitWorldPy == Init /\ definition = WorldPy

\* the objects of the machine record become the state
Commit(op, m) ==
    /\ entity_room_map' = m.entity_room_map
    /\ components' = m.components
    /\ session' = m.session
    /\ systems' = m.systems
    /\ listeners' = m.listeners
    /\ last' = Outcome(op, m)
    /\ UNCHANGED <<definition, world, rooms, entities>>

\* World.create_entity(room): Entity.__init__ makes the id, the dispatcher
\* and the empty component list
CreateEntity(room) ==
    /\ Cardinality(entities) < MaxEntities
    /\ room \in Rooms \cup {None}
    /\ LET id == IdPool[Cardinality(entities) + 1]
           at == IF room = None THEN root ELSE room
       IN  /\ entities' = entities \cup {id}
           /\ entity_room_map' = Put(entity_room_map, id, at)
           /\ components' = Put(components, id, <<>>)
           /\ session' = Put(session, id, Unset)
           /\ listeners' = Put(listeners, id, NoKw)
           /\ last' = [Outcome(Call("create_entity", id, room, NoKw), Machine)
                          EXCEPT !.ret = Value("self", id)]
    /\ UNCHANGED <<definition, world, rooms, systems, current_tick>>

AddComponent(e, kind, kwargs) ==
    /\ LET m == add_component(Machine, e, kind, kwargs)
       IN  Commit(Call("add_component", e, kind, kwargs),
                  IF m.exc = NoExc THEN Return(m, Value("self", e)) ELSE m)
    /\ UNCHANGED current_tick

RemoveComponent(e, kind) ==
    /\ LET m == remove_component(Machine, e, kind)
       IN  Commit(Call("remove_component", e, kind, NoKw),
                  IF m.exc = NoExc THEN Return(m, Value("self", e)) ELSE m)
    /\ UNCHANGED current_tick

GetComponent(e, kind) ==
    /\ Commit(Call("get_component", e, kind, NoKw), get_component(Machine, e, kind))
    /\ UNCHANGED current_tick

Move(e, direction) ==
    /\ Commit(Call("move", e, direction, NoKw), move(Machine, e, direction))
    /\ UNCHANGED current_tick

\* World.tick
Tick ==
    /\ current_tick < MaxTick
    /\ current_tick' = current_tick + 1
    /\ Commit(Call("tick", "-", "-", NoKw), tick(Machine, current_tick + 1))

\* the keyword arguments tried with add_component
Overrides(e, kind) ==
    CASE kind = "player" -> {NoKw, [session |-> SessionOf(e)]}
      [] kind = "health" -> {NoKw, [hp |-> 95]}
      [] kind = "armor"  -> {NoKw, [ac |-> 5]}
      [] OTHER           -> {NoKw, [room |-> "root"]}

\* the health records tried with on_tick
HealthOverrides ==
    {NoKw} \cup
    [hp : {90, 95, 100, 105}, hp_regen : {-10, 0, 10}, is_dead : BOOLEAN]

\* the health records tried with repeated ticks
RegenOverrides ==
    {[hp |-> 90, hp_regen |-> 5, is_dead |-> FALSE],
     [hp |-> 90, hp_regen |-> 5, is_dead |-> TRUE],
     [hp |-> 90, hp_regen |-> 0, is_dead |-> FALSE],
     [hp |-> 95, hp_regen |-> 10, is_dead |-> FALSE],
     [hp |-> 100, hp_regen |-> 5, is_dead |-> FALSE]}

\* the handlers tried on a dispatcher directly
SomeHandlers ==
    {display_entity_arrived("s1"), display_entity_left("s1"), display_entity_arrived("s2")}

\* EventDispatcher.add_handler, called on the world's dispatcher
AddHandler(owner, event, handler) ==
    /\ LET m == add_handler(Machine, owner, event, handler)
       IN  Commit(Call("add_handler", owner, event, handler),
                  IF m.exc = NoExc THEN Return(m, Value("self", owner)) ELSE m)
    /\ UNCHANGED current_tick

\* EventDispatcher.remove_handler
RemoveHandler(owner, event, handler) ==
    /\ LET m == remove_handler(Machine, owner, event, handler)
       IN  Commit(Call("remove_handler", owner, event, handler),
                  IF m.exc = NoExc THEN Return(m, Value("self", owner)) ELSE m)
    /\ UNCHANGED current_tick

\* EventDispatcher.dispatch
Dispatch(owner, event) ==
    /\ Commit(Call("dispatch", owner, event, NoKw),
              dispatch(Machine, owner, event, EventData("-", "-", "-", "-")))
    /\ UNCHANGED current_tick

\* Room.get_exit, called on a room of the world
GetExit(room, direction) ==
    /\ Commit(Call("get_exit", room, direction, NoKw),
              Return(Machine, Value("room", get_exit(room, direction))))
    /\ UNCHANGED current_tick

Exits == \E room \in Rooms, direction \in Directions : GetExit(room, direction)

Entities == \E room \in Rooms \cup {None} : CreateEntity(room)

\* an entity created with the default room, while fewer than MaxCarriers exist
Carriers == Cardinality(entities) < MaxCarriers /\ CreateEntity(None)

ComponentCalls(kinds) ==
    \E e \in entities, kind \in kinds :
        \/ \E kwargs \in Overrides(e, kind) : AddComponent(e, kind, kwargs)
        \/ RemoveComponent(e, kind)
        \/ GetComponent(e, kind)

Components == ComponentCalls(Kinds)

Requirements == ComponentCalls({"player", "health"})

\* <System>.register called on the system itself
Register(e, kind, kwargs) ==
    /\ Commit(Call("register", e, kind, kwargs), register(Machine, kind, e, kwargs))
    /\ UNCHANGED current_tick

Registers ==
    \E e \in entities, kind \in {"player", "health"} :
        \E kwargs \in Overrides(e, kind) : Register(e, kind, kwargs)

Players ==
    \E e \in entities :
        \E kwargs \in Overrides(e, "player") : AddComponent(e, "player", kwargs)

\* entities created with the default room
Newcomers == CreateEntity(None)

Removals == \E e \in entities, kind \in {"player", "health"} : RemoveComponent(e, kind)

Healths == \E e \in entities, kwargs \in HealthOverrides : AddComponent(e, "health", kwargs)

Regens == \E e \in entities, kwargs \in RegenOverrides : AddComponent(e, "health", kwargs)

Moves == \E e \in entities, direction \in Directions : Move(e, direction)

\* players whose session is broken
FaultyPlayers == \E e \in entities : AddComponent(e, "player", [session |-> Broken])

\* a room's dispatcher, dispatched on directly
RoomDispatches == \E r \in Rooms, event \in {"arrived", "left"} : Dispatch(r, event)

\* handlers that change the list they are called from, and two that do not
ReentrantHandlers ==
    {once, unsubscribes("s1"), subscribes("s2"),
     display_entity_arrived("s1"), display_entity_arrived("s2")}

Reentrants ==
    \/ \E handler \in ReentrantHandlers :
          \/ AddHandler("world", "arrived", handler)
          \/ RemoveHandler("world", "arrived", handler)
    \/ Dispatch("world", "arrived")

Handlers ==
    \E event \in {"arrived", "left"} :
        \/ \E handler \in SomeHandlers :
              \/ AddHandler("world", event, handler)
              \/ RemoveHandler("world", event, handler)
        \/ Dispatch("world", event)

Next ==
    \/ Entities
    \/ Carriers
    \/ Components
    \/ Requirements
    \/ Registers
    \/ Players
    \/ Healths
    \/ Moves
    \/ Tick
    \/ Handlers
    \/ FaultyPlayers
    \/ RoomDispatches
    \/ Exits
    \/ Newcomers
    \/ Removals
    \/ Reentrants
    \/ Regens

Spec == Init /\ [][Next]_vars

\* entities, players and their moves
NextMove == Entities \/ Players \/ Moves

SpecMove == Init /\ [][NextMove]_vars

\* entities and their components
NextComponents == Carriers \/ Components

SpecComponents == InitWorldPy /\ [][NextComponents]_vars

\* the player kind and the kind it requires
NextRequirements == Carriers \/ Requirements

SpecRequirements == InitWorldPy /\ [][NextRequirements]_vars

\* the same, with the systems' register also called directly
NextRegister == Carriers \/ Requirements \/ Registers

SpecRegister == InitWorldPy /\ [][NextRegister]_vars

\* health records under the tick
NextHealth == Carriers \/ Healths \/ Tick

SpecHealth == InitWorldPy /\ [][NextHealth]_vars

\* health records under a tick that the server's periodic callback keeps
\* calling
NextRegen == Carriers \/ Regens \/ Tick

SpecRegen == InitWorldPy /\ [][NextRegen]_vars /\ WF_vars(Tick)

\* construction on any definition, and the built world in use
NextConstruct == Usable /\ (Entities \/ Moves \/ Exits)

SpecConstruct == InitAny /\ [][NextConstruct]_vars

\* players with sound and with broken sessions, their moves, and dispatch
NextFaulty == Entities \/ Players \/ FaultyPlayers \/ Moves \/ RoomDispatches

SpecFaulty == Init /\ [][NextFaulty]_vars

\* players, health and the tick
NextTick == Carriers \/ Requirements \/ Tick

SpecTick == InitWorldPy /\ [][NextTick]_vars

\* several entities, players and the removal of player and health
NextRemoval == Newcomers \/ Players \/ Removals

SpecRemoval == InitWorldPy /\ [][NextRemoval]_vars

\* one dispatcher whose handlers change its list while it dispatches
NextReentrant == Reentrants

SpecReentrant == Init /\ [][NextReentrant]_vars

\* one dispatcher and its handlers
NextDispatcher == Handlers

SpecDispatcher == Init /\ [][NextDispatcher]_vars

----------------------------------------------------------------------------
(* Properties.  They read the world definition and the state directly, and *)
(* the trace of the last call; none is stated through the operators above. *)

IsDispatch(x) == x.t = "dispatch"

IsCall(x) == x.t = "call"

IsMoveEntity(x) == x.t = "move_entity"

Trace == last.log

\* the entity and argument of the call that made this state
Callee == last.op.entity

Arg == last.op.arg

Returned(flag) ==
    /\ last.exc = NoExc
    /\ last.ret.tag = "tuple"
    /\ last.ret.val[1] = flag

Carries(e, kind) == kind \in Range(components[e])

HasRecord(e, kind) == e \in DOMAIN systems[kind]

\* the rooms on whose dispatcher `handler` is registered under `event`
RoomsWith(event, handler) ==
    {r \in Rooms : handler \in Range(Get(listeners[r], event, <<>>))}

\* C1: a move through an exit of the current room sets the location once, to
\* the exit's target, before any event; returns success; and dispatches
\* "arrived" on the target room, "moved" on the entity and "left" on the
\* origin room, in this order and nothing else.
C1_MoveThroughExit ==
    [][\A e \in entities, d \in Directions :
          (/\ last'.op.name = "move" /\ last'.op.entity = e /\ last'.op.arg = d
           /\ entity_room_map[e] \in Rooms
           /\ d \in DOMAIN definition[entity_room_map[e]].exits)
          => LET origin == entity_room_map[e]
                 target == definition[origin].exits[d]
             IN  /\ entity_room_map' = Put(entity_room_map, e, target)
                 /\ last'.exc = NoExc
                 /\ last'.ret = [tag |-> "tuple", val |-> <<TRUE, None>>]
                 /\ last'.log[1] = [t |-> "move_entity", entity |-> e, room |-> target]
                 /\ Len(SelectSeq(last'.log, IsMoveEntity)) = 1
                 /\ SelectSeq(last'.log, IsDispatch) =
                        << [t |-> "dispatch", event |-> "arrived", on |-> target],
                           [t |-> "dispatch", event |-> "moved", on |-> e],
                           [t |-> "dispatch", event |-> "left", on |-> origin] >>
      ]_vars

\* C1 happens: a move succeeded between two rooms, and a player in the
\* target room was told of the arrival
C1_Witness ==
    /\ last.op.name = "move"
    /\ Returned(TRUE)
    /\ \E i \in DOMAIN Trace :
          /\ IsCall(Trace[i])
          /\ Trace[i].fn = "display_entity_arrived"
          /\ Trace[i].on = entity_room_map[Callee]
          /\ Trace[i].self # SessionOf(Callee)

\* C2: a move in a direction the current room has no exit for returns
\* (False, message) with a non-empty message, changes no location and no
\* listener list, and dispatches nothing and calls no handler.
C2_MoveWithoutExit ==
    [][\A e \in entities, d \in Directions :
          (/\ last'.op.name = "move" /\ last'.op.entity = e /\ last'.op.arg = d
           /\ entity_room_map[e] \in Rooms
           /\ d \notin DOMAIN definition[entity_room_map[e]].exits)
          => /\ last'.exc = NoExc
             /\ last'.ret.tag = "tuple"
             /\ last'.ret.val[1] = FALSE
             /\ last'.ret.val[2] \notin {"", None}
             /\ entity_room_map' = entity_room_map
             /\ listeners' = listeners
             /\ components' = components
             /\ systems' = systems
             /\ last'.log = <<>>
      ]_vars

\* C2 happens: a player in a room with listeners failed to move
C2_Witness ==
    /\ last.op.name = "move"
    /\ Returned(FALSE)
    /\ Carries(Callee, "player")
    /\ listeners[entity_room_map[Callee]] # NoKw

\* the session a player record holds, None when there is none
PlayerSession(e) ==
    IF HasRecord(e, "player") THEN systems["player"][e].session ELSE None

\* C3: every entity that carries the player component with a session has
\* the session's arrival and departure callbacks registered on exactly one
\* room, the room the location map gives for the entity.
C3_SubscribedToCurrentRoom ==
    \A e \in entities :
        (Carries(e, "player") /\ PlayerSession(e) # None)
        => /\ RoomsWith("arrived", display_entity_arrived(PlayerSession(e)))
                  = {entity_room_map[e]}
           /\ RoomsWith("left", display_entity_left(PlayerSession(e)))
                  = {entity_room_map[e]}

\* C3, for the entities whose location is a room of the world
C3_SubscribedWhereLocated ==
    \A e \in entities :
        (Carries(e, "player") /\ PlayerSession(e) # None /\ entity_room_map[e] \in Rooms)
        => /\ RoomsWith("arrived", display_entity_arrived(PlayerSession(e)))
                  = {entity_room_map[e]}
           /\ RoomsWith("left", display_entity_left(PlayerSession(e)))
                  = {entity_room_map[e]}

\* C4: the "left" event of a player's successful move does not call the
\* mover's own departure callback.
C4_NoOwnDeparture ==
    (/\ last.op.name = "move"
     /\ Returned(TRUE)
     /\ Carries(Callee, "player")
     /\ PlayerSession(Callee) # None)
    => \A i \in DOMAIN Trace :
          ~(/\ IsCall(Trace[i])
            /\ Trace[i].fn = "display_entity_left"
            /\ Trace[i].event = "left"
            /\ Trace[i].self = PlayerSession(Callee))

\* C4, for the moves that end in another room than they started from
C4_NoOwnDepartureBetweenRooms ==
    (/\ last.op.name = "move"
     /\ Returned(TRUE)
     /\ Carries(Callee, "player")
     /\ PlayerSession(Callee) # None
     /\ \E i \in DOMAIN Trace :
           /\ IsDispatch(Trace[i])
           /\ Trace[i].event = "left"
           /\ Trace[i].on # entity_room_map[Callee])
    => \A i \in DOMAIN Trace :
          ~(/\ IsCall(Trace[i])
            /\ Trace[i].fn = "display_entity_left"
            /\ Trace[i].event = "left"
            /\ Trace[i].self = PlayerSession(Callee))

\* C5: a record for (entity, kind) is in the kind's system store if and
\* only if kind is in the entity's components.
C5_StoreAgreesWithComponents ==
    \A e \in entities, kind \in Kinds : HasRecord(e, kind) <=> Carries(e, kind)

NoDuplicates(list) == \A i, j \in DOMAIN list : list[i] = list[j] => i = j

\* C6: add_component of a kind the entity carries, and register of a kind
\* the entity has a record for, change nothing and run no on_register; no
\* call changes or re-registers a record that exists, and no kind is listed
\* twice in an entity's components.
C6_RegisterTwice ==
    [][\A e \in entities, kind \in Kinds :
          (last'.op.name \in {"add_component", "register"} /\ last'.op.entity = e)
          => /\ (/\ last'.op.arg = kind
                 /\ IF last'.op.name = "add_component"
                    THEN Carries(e, kind) ELSE HasRecord(e, kind))
                => /\ systems' = systems
                   /\ components' = components
                   /\ listeners' = listeners
                   /\ session' = session
                   /\ last'.log = <<>>
                   /\ last'.exc = NoExc
             /\ HasRecord(e, kind)
                => /\ e \in DOMAIN systems'[kind]
                   /\ systems'[kind][e] = systems[kind][e]
                   /\ \A i \in DOMAIN last'.log :
                         ~(last'.log[i].t = "on_register" /\ last'.log[i].kind = kind)
             /\ NoDuplicates(components'[e])
      ]_vars

\* C6 happens: health was added again with hp 95 and the record kept hp 100
C6_Witness ==
    /\ last.op.name = "add_component"
    /\ Arg = "health"
    /\ "hp" \in DOMAIN last.op.kwargs
    /\ Trace = <<>>
    /\ HasRecord(Callee, "health")
    /\ systems["health"][Callee].hp = 100

\* what add_component('player') owes an entity: health is attached, and its
\* record and on_register come before the player's record and on_register
HealthFirst(e, comps, store, log) ==
    /\ "health" \in Range(comps[e])
    /\ e \in DOMAIN store["health"]
    /\ \E i, j \in DOMAIN log :
          /\ i < j
          /\ log[i] = [t |-> "record", kind |-> "health", entity |-> e]
          /\ log[j] = [t |-> "on_register", kind |-> "health", entity |-> e]
          /\ \A k \in DOMAIN log : log[k].kind = "player" => j < k

\* C7 as stated: add_component('player') on any entity without health
\* attaches health first; an entity with health keeps its record.
C7_PlayerAttachesHealth ==
    [][\A e \in entities :
          (/\ last'.op.name = "add_component" /\ last'.op.entity = e
           /\ last'.op.arg = "player")
          => /\ ~Carries(e, "health")
                => HealthFirst(e, components', systems', last'.log)
             /\ (Carries(e, "health") /\ HasRecord(e, "health"))
                => /\ e \in DOMAIN systems'["health"]
                   /\ systems'["health"][e] = systems["health"][e]
      ]_vars

\* C7 amended: add_component('player') on an entity that carries neither
\* health nor player attaches health first; an entity with health keeps
\* its record.
C7_NewPlayerAttachesHealth ==
    [][\A e \in entities :
          (/\ last'.op.name = "add_component" /\ last'.op.entity = e
           /\ last'.op.arg = "player")
          => /\ (~Carries(e, "health") /\ ~Carries(e, "player"))
                => HealthFirst(e, components', systems', last'.log)
             /\ (Carries(e, "health") /\ HasRecord(e, "health"))
                => /\ e \in DOMAIN systems'["health"]
                   /\ systems'["health"][e] = systems["health"][e]
      ]_vars

\* C7 happens: a player was added to an entity without health
C7_Witness ==
    /\ last.op.name = "add_component"
    /\ Arg = "player"
    /\ last.exc = NoExc
    /\ Trace = << [t |-> "record", kind |-> "health", entity |-> Callee],
                  [t |-> "on_register", kind |-> "health", entity |-> Callee],
                  [t |-> "record", kind |-> "player", entity |-> Callee],
                  [t |-> "on_register", kind |-> "player", entity |-> Callee] >>

\* C8: after remove_component(kind) has removed a record, the entity does
\* not carry kind and get_component(kind) on it fails with a lookup error.
C8_RemovedLookupFails ==
    [][\A e \in entities, kind \in Kinds :
          (/\ last.op.name = "remove_component" /\ last.op.entity = e
           /\ last.op.arg = kind /\ last.log # <<>>
           /\ last'.op.name = "get_component" /\ last'.op.entity = e
           /\ last'.op.arg = kind)
          => /\ ~Carries(e, kind)
             /\ last'.exc \in {"KeyError", "LookupError"}
      ]_vars

Min(a, b) == IF a <= b THEN a ELSE b

\* C9: a tick leaves hp alone if is_dead or hp = hp_max, and else sets it to
\* min(hp + hp_regen, hp_max); nothing else of the record changes; a record
\* with hp <= hp_max keeps hp <= hp_max.
C9_Regeneration ==
    [][last'.op.name = "tick"
       => /\ DOMAIN systems'["health"] = DOMAIN systems["health"]
          /\ \A e \in DOMAIN systems["health"] :
                LET old == systems["health"][e]
                    new == systems'["health"][e]
                IN  /\ new.hp = IF old.is_dead \/ old.hp = old.hp_max THEN old.hp
                                ELSE Min(old.hp + old.hp_regen, old.hp_max)
                    /\ new.hp_max = old.hp_max
                    /\ new.hp_regen = old.hp_regen
                    /\ new.is_dead = old.is_dead
                    /\ old.hp <= old.hp_max => new.hp <= new.hp_max
      ]_vars

\* C9 happens: a tick took a living record of 95/100 with hp_regen 10 to 100
C9_Witness ==
    /\ last.op.name = "tick"
    /\ \E i \in DOMAIN Trace, e \in entities :
          /\ Trace[i].t = "on_tick"
          /\ Trace[i].kind = "health"
          /\ e \in DOMAIN Trace[i].before
          /\ Trace[i].before[e].hp = 95
          /\ Trace[i].before[e].hp_max = 100
          /\ Trace[i].before[e].hp_regen = 10
          /\ ~Trace[i].before[e].is_dead
          /\ systems["health"][e].hp = 100

\* C10: remove_handler of a handler that is not registered under the event
\* raises nothing and leaves every listener list as it was.
C10_RemoveAbsentHandler ==
    [][(/\ last'.op.name = "remove_handler"
        /\ last'.op.kwargs \notin
               Range(Get(listeners[last'.op.entity], last'.op.arg, <<>>)))
       => /\ last'.exc = NoExc
          /\ listeners' = listeners
      ]_vars

\* C10, for an event that has no handler at all
C10_RemoveFromEmpty ==
    [][(/\ last'.op.name = "remove_handler"
        /\ Get(listeners[last'.op.entity], last'.op.arg, <<>>) = <<>>)
       => /\ last'.exc = NoExc
          /\ listeners' = listeners
      ]_vars

\* the handlers a call took from the list of `event` on `owner`, in order
Invoked(log, event, owner) ==
    LET IsListener(x) == x.t = "listener" /\ x.event = event /\ x.on = owner
        taken == SelectSeq(log, IsListener)
    IN  [i \in DOMAIN taken |-> taken[i].handler]

IsLogged(x) == x.t = "logged"

\* the exits the definition gives a room
ExitsIn(def, r) == IF "exits" \in DOMAIN def[r] THEN def[r].exits ELSE NoExits

\* C11: a dispatch calls every handler registered for the event, whether or
\* not one of them raises, and raises nothing itself; a move through an exit
\* sets the location, dispatches "arrived", "moved" and "left", calls every
\* handler registered for each when it is dispatched (for "left" these are
\* the handlers of the state the move leaves) and returns success, whether
\* or not a handler raises.
C11_HandlerFailureIsolated ==
    [][/\ last'.op.name = "dispatch"
          => /\ last'.exc = NoExc
             /\ Invoked(last'.log, last'.op.arg, last'.op.entity)
                    = Get(listeners[last'.op.entity], last'.op.arg, <<>>)
             /\ Len(SelectSeq(last'.log, IsLogged)) =
                    Cardinality({i \in DOMAIN last'.log :
                                    /\ last'.log[i].t = "call"
                                    /\ last'.log[i].self = Broken})
       /\ \A e \in entities, d \in Directions :
             (/\ last'.op.name = "move" /\ last'.op.entity = e /\ last'.op.arg = d
              /\ entity_room_map[e] \in DOMAIN definition
              /\ d \in DOMAIN ExitsIn(definition, entity_room_map[e]))
             => LET origin == entity_room_map[e]
                    target == ExitsIn(definition, origin)[d]
                IN  /\ last'.exc = NoExc
                    /\ last'.ret = [tag |-> "tuple", val |-> <<TRUE, None>>]
                    /\ entity_room_map'[e] = target
                    /\ SelectSeq(last'.log, IsDispatch) =
                           << [t |-> "dispatch", event |-> "arrived", on |-> target],
                              [t |-> "dispatch", event |-> "moved", on |-> e],
                              [t |-> "dispatch", event |-> "left", on |-> origin] >>
                    /\ Invoked(last'.log, "arrived", target)
                           = Get(listeners[target], "arrived", <<>>)
                    /\ Invoked(last'.log, "moved", e) = Get(listeners[e], "moved", <<>>)
                    /\ Invoked(last'.log, "left", origin)
                           = Get(listeners'[origin], "left", <<>>)
      ]_vars

\* C11 happens: during a successful move a handler of "arrived" raised, the
\* next handler of "arrived" was called all the same, and "left" followed
C11_Witness ==
    /\ last.op.name = "move"
    /\ Returned(TRUE)
    /\ \E i, j, k \in DOMAIN Trace :
          /\ i < j /\ j < k
          /\ Trace[i].t = "logged" /\ Trace[i].fn = "display_entity_arrived"
          /\ Trace[j].t = "listener" /\ Trace[j].event = "arrived"
          /\ Trace[k].t = "dispatch" /\ Trace[k].event = "left"

\* the list without the handler, the others in their order
Without(list, handler) ==
    LET Other(x) == x # handler
    IN  SelectSeq(list, Other)

\* C12: on one dispatcher, add_handler appends a handler that is not in the
\* event's list and changes nothing when it is; remove_handler takes the
\* handler out and keeps the others in their order; so the list is always
\* the surviving registrations in their order, without duplicates.  A
\* dispatch calls exactly the handlers of the event's list, once each, in
\* that order, and no handler of another event.
C12_DispatchRegistered ==
    [][\A owner \in DOMAIN listeners :
          LET old(event) == Get(listeners[owner], event, <<>>)
              new(event) == Get(listeners'[owner], event, <<>>)
          IN  (last'.op.name \in {"add_handler", "remove_handler", "dispatch"}
               /\ last'.op.entity = owner)
              => /\ \A event \in Events :
                       /\ NoDuplicates(new(event))
                       /\ new(event) =
                            IF event # last'.op.arg THEN old(event)
                            ELSE IF last'.op.name = "dispatch" THEN old(event)
                            ELSE IF last'.op.name = "remove_handler"
                            THEN Without(old(event), last'.op.kwargs)
                            ELSE IF last'.op.kwargs \in Range(old(event))
                            THEN old(event)
                            ELSE Append(old(event), last'.op.kwargs)
                 /\ last'.op.name = "dispatch"
                    => /\ Invoked(last'.log, last'.op.arg, owner) = old(last'.op.arg)
                       /\ \A i \in DOMAIN last'.log :
                             last'.log[i].t \in {"listener", "call"}
                             => last'.log[i].event = last'.op.arg
      ]_vars

\* C12 happens: a dispatch of "arrived" called the two handlers of its
\* list in the list's order, while "left" had a handler that was not called
C12_Witness ==
    /\ last.op.name = "dispatch"
    /\ last.op.arg = "arrived"
    /\ Invoked(Trace, "arrived", "world")
           = <<display_entity_arrived("s2"), display_entity_arrived("s1")>>
    /\ Get(listeners["world"], "left", <<>>) = <<display_entity_left("s1")>>

\* C13: every entity of the world has a location entry, and the location is
\* a room of the world.
C13_LocatedInARoom ==
    \A e \in entities :
        /\ e \in DOMAIN entity_room_map
        /\ entity_room_map[e] \in DOMAIN rooms

\* C13, for the worlds that declare a room 'root'
C13_LocatedInARoomWithRoot ==
    "root" \in DOMAIN definition => C13_LocatedInARoom

\* the definition has an exit whose target it does not declare
HasUndeclaredExit(def) ==
    \E r \in DOMAIN def :
        \E d \in DOMAIN ExitsIn(def, r) : ExitsIn(def, r)[d] \notin DOMAIN def

\* C14: for a definition with an exit to an undeclared room, construction
\* ends with WorldValidationError with no rooms, no systems and no tick
\* counter set, and nothing is ever called on the world.
C14_InvalidDefinitionFails ==
    HasUndeclaredExit(definition)
    => /\ last.op.name = "World"
       /\ last.exc = "WorldValidationError"
       /\ world \cap {"rooms", "systems", "current_tick"} = {}
       /\ rooms = NoKw
       /\ systems = NoKw
       /\ DOMAIN listeners = {"world"}
       /\ entities = {}

\* C14 happens: construction failed on a definition with a room whose
\* exits are sound and a room with an undeclared exit
C14_Witness ==
    /\ last.exc = "WorldValidationError"
    /\ HasUndeclaredExit(definition)
    /\ \E r \in DOMAIN definition :
          \A d \in DOMAIN ExitsIn(definition, r) :
              ExitsIn(definition, r)[d] \in DOMAIN definition

\* C15: for a definition whose exits all lead to declared rooms,
\* construction succeeds with one Room per declared id, carrying that id;
\* get_exit on a room returns the room that is the direction's target in the
\* definition, and no room for a direction the definition gives no exit.
C15_ValidDefinitionBuilds ==
    ~HasUndeclaredExit(definition)
    => /\ Usable
       /\ world = {"dispatcher", "entities", "entity_room_map", "rooms", "systems",
                   "current_tick"}
       /\ DOMAIN rooms = DOMAIN definition
       /\ \A r \in DOMAIN rooms : rooms[r].id = r
       /\ last.op.name = "World" => last.exc = NoExc
       /\ last.op.name = "get_exit"
          => /\ last.exc = NoExc
             /\ last.ret.val =
                    IF last.op.arg \in DOMAIN ExitsIn(definition, last.op.entity)
                    THEN ExitsIn(definition, last.op.entity)[last.op.arg]
                    ELSE None

\* C15 happens: get_exit returned the room itself for an exit that leads
\* back to its own room
C15_Witness ==
    /\ last.op.name = "get_exit"
    /\ last.ret.val = last.op.entity
    /\ rooms[last.op.entity].exit_dict[last.op.arg] = last.op.entity

\* C16: the counter starts at 0, a tick adds exactly 1 to it and no other
\* call changes it, so it equals the number of ticks; a tick sets the
\* counter before it calls any on_tick, calls on_tick once on every system,
\* and changes no location, no component list, no session and no listener.
C16_TickCounts ==
    /\ current_tick = 0
    /\ [][IF last'.op.name = "tick"
          THEN /\ current_tick' = current_tick + 1
               /\ last'.exc = NoExc
               /\ last'.log[1] = [t |-> "current_tick", value |-> current_tick + 1]
               /\ \A kind \in DOMAIN systems :
                     Cardinality({i \in DOMAIN last'.log :
                                     /\ last'.log[i].t = "on_tick"
                                     /\ last'.log[i].kind = kind}) = 1
               /\ Len(last'.log) = 1 + Cardinality(DOMAIN systems)
               /\ entity_room_map' = entity_room_map
               /\ components' = components
               /\ session' = session
               /\ listeners' = listeners
               /\ entities' = entities
          ELSE current_tick' = current_tick
      ]_vars

\* C16 happens: the second tick ran in a world with a player subscribed to
\* its room, whose health the tick found and left at 100
C16_Witness ==
    /\ last.op.name = "tick"
    /\ current_tick = 2
    /\ \E e \in entities :
          /\ Carries(e, "player")
          /\ HasRecord(e, "health")
          /\ systems["health"][e].hp = 100
          /\ \E i \in DOMAIN Trace :
                /\ Trace[i].t = "on_tick" /\ Trace[i].kind = "health"
                /\ e \in DOMAIN Trace[i].before
                /\ Trace[i].before[e].hp = 100
          /\ RoomsWith("arrived", display_entity_arrived(SessionOf(e))) # {}

\* the defaults the kinds declare: health (hp 100, hp_max 100, hp_regen 10,
\* is_dead false), armor (ac 10), player (no session), mobile (nothing)
Declared(kind) ==
    CASE kind = "health" -> [hp |-> 100, hp_max |-> 100, hp_regen |-> 10, is_dead |-> FALSE]
      [] kind = "armor"  -> [ac |-> 10]
      [] kind = "player" -> [session |-> None]
      [] OTHER           -> NoKw

\* C17: add_component(kind, **attrs) on an entity that does not carry kind,
\* with attrs among the kind's attributes, succeeds and stores the kind's
\* declared defaults overlaid with attrs.
C17_DefaultsOverlaid ==
    [][\A e \in entities, kind \in Kinds :
          (/\ last'.op.name = "add_component" /\ last'.op.entity = e
           /\ last'.op.arg = kind
           /\ ~Carries(e, kind) /\ ~HasRecord(e, kind)
           /\ DOMAIN last'.op.kwargs \subseteq DOMAIN Declared(kind)
           /\ kind = "player" => entity_room_map[e] \in DOMAIN rooms
           /\ kind = "player" => "session" \in DOMAIN last'.op.kwargs)
          => /\ last'.exc = NoExc
             /\ e \in DOMAIN systems'[kind]
             /\ systems'[kind][e] = last'.op.kwargs @@ Declared(kind)
      ]_vars

\* C17, for the kinds whose attributes are all listed with a default
C17_DefaultsOverlaidWhereListed ==
    [][\A e \in entities, kind \in Kinds \ {"armor"} :
          (/\ last'.op.name = "add_component" /\ last'.op.entity = e
           /\ last'.op.arg = kind
           /\ ~Carries(e, kind) /\ ~HasRecord(e, kind)
           /\ DOMAIN last'.op.kwargs \subseteq DOMAIN Declared(kind)
           /\ kind = "player" => entity_room_map[e] \in DOMAIN rooms
           /\ kind = "player" => "session" \in DOMAIN last'.op.kwargs)
          => /\ last'.exc = NoExc
             /\ e \in DOMAIN systems'[kind]
             /\ systems'[kind][e] = last'.op.kwargs @@ Declared(kind)
      ]_vars

\* C18: remove_component(kind) on an entity takes kind out of its component
\* list and its record out of the kind's store, and nothing else: the other
\* kinds of the entity stay in their order, every record of every other kind
\* and every record of other entities is as it was (a required or requiring
\* kind included), and so are all locations and sessions.
C18_RemovesOnlyThatKind ==
    [][\A e \in entities, kind \in Kinds :
          (/\ last'.op.name = "remove_component" /\ last'.op.entity = e
           /\ last'.op.arg = kind)
          => /\ last'.exc = NoExc
             /\ components'[e] = Without(components[e], kind)
             /\ \A x \in entities \ {e} : components'[x] = components[x]
             /\ \A k \in Kinds \ {kind} : systems'[k] = systems[k]
             /\ DOMAIN systems'[kind] = DOMAIN systems[kind] \ {e}
             /\ \A x \in DOMAIN systems'[kind] : systems'[kind][x] = systems[kind][x]
             /\ entity_room_map' = entity_room_map
             /\ session' = session
             /\ entities' = entities
      ]_vars

\* C18 happens: health was removed from a player that stays a player with
\* its record, next to another entity that keeps its health
C18_Witness ==
    /\ last.op.name = "remove_component"
    /\ Arg = "health"
    /\ Trace # <<>>
    /\ Carries(Callee, "player") /\ HasRecord(Callee, "player")
    /\ ~Carries(Callee, "health") /\ ~HasRecord(Callee, "health")
    /\ \E x \in entities \ {Callee} : Carries(x, "health") /\ HasRecord(x, "health")

\* how often a call called the callback `fn` of session `s`
Calls(log, fn, s) ==
    Cardinality({i \in DOMAIN log :
                    log[i].t = "call" /\ log[i].fn = fn /\ log[i].self = s})

Taken(log, handler) ==
    Cardinality({i \in DOMAIN log : log[i].t = "listener" /\ log[i].handler = handler})

\* C20: in a dispatch, every handler that is registered for the event when
\* the dispatch starts and is still registered when it ends is called
\* exactly once, and no handler is called twice, also when handlers add or
\* remove handlers of that event meanwhile.
C20_SafeAgainstListChanges ==
    [][last'.op.name = "dispatch"
       => LET old == Get(listeners[last'.op.entity], last'.op.arg, <<>>)
              new == Get(listeners'[last'.op.entity], last'.op.arg, <<>>)
          IN  /\ \A h \in Range(old) \cap Range(new) : Taken(last'.log, h) = 1
              /\ \A h \in Range(old) \cup Range(new) : Taken(last'.log, h) <= 1
      ]_vars

\* C20, for the dispatches during which no handler is removed
C20_SafeWhenNoneRemoved ==
    [][last'.op.name = "dispatch"
       => LET old == Get(listeners[last'.op.entity], last'.op.arg, <<>>)
              new == Get(listeners'[last'.op.entity], last'.op.arg, <<>>)
          IN  Range(old) \subseteq Range(new)
              => /\ \A h \in Range(old) : Taken(last'.log, h) = 1
                 /\ \A h \in Range(new) : Taken(last'.log, h) <= 1
      ]_vars

\* no callback of the entity's session is on a room, and the player
\* system's handler is not on the entity's "moved"
NoSubscription(e) ==
    /\ RoomsWith("arrived", display_entity_arrived(SessionOf(e))) = {}
    /\ RoomsWith("left", display_entity_left(SessionOf(e))) = {}
    /\ player_moved_handler \notin Range(Get(listeners[e], "moved", <<>>))

\* C21: an entity that does not carry the player component has no callback
\* of its session registered on any room and no "moved" handler of the
\* player system on its own dispatcher; so nothing subscribed for a player
\* survives remove_component('player').
C21_NoSubscriptionSurvives ==
    \A e \in entities : ~Carries(e, "player") => NoSubscription(e)

\* C21, for the entities that never were a player
C21_NoSubscriptionBeforePlayer ==
    \A e \in entities : session[e] = Unset => NoSubscription(e)

\* the entity has a health record of a living entity below hp_max that
\* regenerates
Regenerating(e) ==
    /\ e \in DOMAIN systems["health"]
    /\ ~systems["health"][e].is_dead
    /\ systems["health"][e].hp < systems["health"][e].hp_max
    /\ systems["health"][e].hp_regen > 0

\* the ticks still to come suffice to bring the record to hp_max
TicksSuffice(e) ==
    systems["health"][e].hp + systems["health"][e].hp_regen * (MaxTick - current_tick)
        >= systems["health"][e].hp_max

AtMax(e) ==
    /\ e \in DOMAIN systems["health"]
    /\ systems["health"][e].hp = systems["health"][e].hp_max

\* the ids the entities of the specification get
CarrierIds == {IdPool[i] : i \in 1..MaxCarriers}

\* C22: each tick strictly increases the hp of a living record below hp_max
\* with hp_regen > 0, never beyond hp_max; a record at hp_max stays there
\* and a dead record keeps its hp; and such a record reaches hp_max after
\* finitely many ticks (within the ticks that are still to come).
C22_RegenerationConverges ==
    /\ [][last'.op.name = "tick"
          => \A e \in DOMAIN systems["health"] :
                LET old == systems["health"][e]
                    new == systems'["health"][e]
                IN  /\ Regenerating(e) => old.hp < new.hp /\ new.hp <= old.hp_max
                    /\ AtMax(e) => new.hp = old.hp
                    /\ old.is_dead => new.hp = old.hp
                    /\ new.hp_max = old.hp_max
                    /\ new.hp_regen = old.hp_regen
                    /\ new.is_dead = old.is_dead
         ]_vars
    /\ [][\A e \in DOMAIN systems["health"] :
             /\ e \in DOMAIN systems'["health"]
             /\ systems["health"][e].hp = systems["health"][e].hp_max
                => systems'["health"][e].hp = systems'["health"][e].hp_max
             /\ systems["health"][e].is_dead
                => systems'["health"][e].hp = systems["health"][e].hp
         ]_vars
    /\ \A e \in CarrierIds :
          (Regenerating(e) /\ TicksSuffice(e)) ~> AtMax(e)

\* C22 happens: a living record that needed two ticks (hp 90, hp_regen 5)
\* was at 95 before the last tick and is at hp_max 100 after it
C22_Witness ==
    /\ last.op.name = "tick"
    /\ current_tick >= 2
    /\ \E e \in entities, i \in DOMAIN Trace :
          /\ Trace[i].t = "on_tick" /\ Trace[i].kind = "health"
          /\ e \in DOMAIN Trace[i].before
          /\ Trace[i].before[e] =
                 [hp |-> 95, hp_max |-> 100, hp_regen |-> 5, is_dead |-> FALSE]
          /\ AtMax(e)

====
